---- MODULE Spec2Model ----
(***************************************************************************)
(* chunkit: Chunkify (src/main.go) turns the calendar events of one day    *)
(* into a sequence of consecutive chunks of time.  The model follows the   *)
(* loop of Chunkify step by step.  Instants are seconds counted from the   *)
(* midnight that `date` denotes.                                           *)
(***************************************************************************)
EXTENDS Integers, Sequences, FiniteSets, TLC

\* ------------------------------------------------------------------------
\* Bounds of the model
\* ------------------------------------------------------------------------

\* longest list of plain (one accepted self attendee) events
MaxEvents == 3

\* longest list of events with arbitrary attendees and timestamps
MaxMixed == 2

\* unrounded boundaries lie 0..MaxMinute minutes after 10:00
MaxMinute == 16

\* ------------------------------------------------------------------------
\* Time
\* ------------------------------------------------------------------------
\* seconds in time.Minute
Minute == 60

Hour == 60 * Minute

startOfDay == 9

endOfDay == 17

\* main parses -date with the layout YYYY-MM-DD: a midnight, the origin here
date == 0

\* time.Time{}: what time.Parse returns next to an error; year 1, long
\* before any date (a multiple of 15 minutes before `date`)
ZeroTime == 0 - 400 * Hour

\* e.Start.DateTime / e.End.DateTime: a string that is empty (all-day
\* event), an RFC3339 timestamp of the instant `sec`, or anything else
EmptyDateTime == [form |-> "empty", sec |-> 0]

MalformedDateTime == [form |-> "malformed", sec |-> 0]

RFC3339(t) == [form |-> "rfc3339", sec |-> t]

\* time.Parse(time.RFC3339, s): the instant and whether parsing failed
ParseRFC3339(dt) ==
    IF dt.form = "rfc3339"
    THEN [t |-> dt.sec, err |-> FALSE]
    ELSE [t |-> ZeroTime, err |-> TRUE]

\* rounding with halfway values rounded down
RoundHalfDown(t, d) ==
    LET r == t % d
    IN  IF r + r <= d THEN t - r ELSE t + d - r

\* Time.Round(d): halfway values round up
Round(t, d) ==
    LET r == t % d
    IN  IF r + r < d THEN t - r ELSE t + d - r

Quarter == 15 * Minute

\* the error of time.Parse is dropped
roundToNearest15(dt) == Round(ParseRFC3339(dt).t, Quarter)

\* ------------------------------------------------------------------------
\* Events, attendees, chunks
\* ------------------------------------------------------------------------
Attendee(self, status) == [Self |-> self, ResponseStatus |-> status]

\* a chunk; Event = 0 is the nil *calendar.Event of a gap chunk, otherwise
\* the position in items of the event the chunk embeds
Chunk(ev, start, end, notes) ==
    [Event |-> ev, start |-> start, end |-> end, notes |-> notes]

\* ------------------------------------------------------------------------
\* The body of Chunkify as functions of the walk state
\*   s = [lo, i, chunks, intersect]; intersect = 0 is nil, otherwise the
\*   position in chunks of the chunk it points to; i is 1-based
\* ------------------------------------------------------------------------
hi == date + endOfDay * Hour

InitWalk == [lo |-> date + startOfDay * Hour, i |-> 0, chunks |-> <<>>, intersect |-> 0]

\* a gap chunk that never takes the notes of intersect
AppendGapBlank(cs, isect, from, to) == Append(cs, Chunk(0, from, to, ""))

\* lines 125-128 and 147-150: a gap chunk [from, to) appended to cs, with
\* the notes of intersect when it is set
AppendGap(cs, isect, from, to) ==
    Append(cs, Chunk(0, from, to, IF isect # 0 THEN cs[isect].notes ELSE ""))

\* nothing returned for an empty list
EmptyResultNone(s) == s

\* lines 96-99
EmptyResult(s) == [s EXCEPT !.chunks = Append(s.chunks, Chunk(0, s.lo, hi, ""))]

\* the all-day test with "and" in place of "or"
IsAllDayBoth(ev) == ev.Start = EmptyDateTime /\ ev.End = EmptyDateTime

\* all-day test of line 103
IsAllDay(ev) == ev.Start = EmptyDateTime \/ ev.End = EmptyDateTime

\* the attendee added whoever created the event
WithSelfAttendeeAlways(ev) ==
    IF Len(ev.Attendees) = 0
    THEN [ev EXCEPT !.Attendees = Append(ev.Attendees, Attendee(TRUE, ""))]
    ELSE ev

\* the attendee added to every event the user created
WithSelfAttendeeCreator(ev) ==
    IF ev.Creator.Self
    THEN [ev EXCEPT !.Attendees = Append(ev.Attendees, Attendee(TRUE, ""))]
    ELSE ev

\* lines 108-112: the event as the loop leaves it
WithSelfAttendee(ev) ==
    IF Len(ev.Attendees) = 0 /\ ev.Creator.Self
    THEN [ev EXCEPT !.Attendees = Append(ev.Attendees, Attendee(TRUE, ""))]
    ELSE ev

\* the attendee test that lets only accepted invitations through
IsSkippedUnlessAccepted(attendee) == ~attendee.Self \/ attendee.ResponseStatus # "accepted"

\* the attendee test without the response status
IsSkippedNotSelf(attendee) == ~attendee.Self

\* line 116
IsSkipped(attendee) == ~attendee.Self \/ attendee.ResponseStatus = "declined"

\* the gap test that lets a gap of up to an hour go
StartsWellAfterLo(start, low) == start > low + Hour

\* the gap test with "differs from" in place of "after"
StartsOffLo(start, low) == start # low

\* the gap test with "not before" in place of "after"
StartsAtOrAfterLo(start, low) == start >= low

\* line 124
StartsAfterLo(start, low) == start > low

\* the overlap test against the start of the previous chunk
IntersectsStart(cs, j, start) == j > 1 /\ start < cs[j - 1].start

\* line 136: the chunk before chunk j ends after chunk j starts
Intersects(cs, j, start) == j > 1 /\ start < cs[j - 1].end

\* the truncation applied to the first chunk
TruncateFirst(cs, j, start) == [cs EXCEPT ![1].end = start]

\* line 138
Truncate(cs, j, start) == [cs EXCEPT ![j - 1].end = start]

\* the cursor moved to the start of the event chunk
CursorAtStart(cs, j) == cs[j].start

\* line 141: the cursor moves to the end of the event chunk
CursorAfter(cs, j) == cs[j].end

\* lines 120-141 for event ev at position k of items
AddEventChunk(s, k, ev) ==
    LET start == roundToNearest15(ev.Start)
        end   == roundToNearest15(ev.End)
        c1    == IF StartsAfterLo(start, s.lo)
                 THEN AppendGap(s.chunks, s.intersect, s.lo, start)
                 ELSE s.chunks
        c2    == Append(c1, Chunk(k, start, end, ev.Summary))
        j     == Len(c2)
        cut   == Intersects(c2, j, start)
        c3    == IF cut THEN Truncate(c2, j, start) ELSE c2
    IN  [lo        |-> CursorAfter(c3, j),
         i         |-> j,
         chunks    |-> c3,
         intersect |-> IF cut THEN j - 1 ELSE s.intersect]

\* the trailing gap with the comparison turned around
TrailingGapAfter(s) ==
    IF hi < s.lo
    THEN [s EXCEPT !.chunks = AppendGap(s.chunks, s.intersect, s.lo, hi)]
    ELSE s

\* lines 146-151
TrailingGap(s) ==
    IF s.lo < hi
    THEN [s EXCEPT !.chunks = AppendGap(s.chunks, s.intersect, s.lo, hi)]
    ELSE s

\* the inner range loop from attendee j on (lines 114-142)
RECURSIVE WalkAttendees(_, _, _, _)
WalkAttendees(s, k, ev, j) ==
    IF j > Len(ev.Attendees)
    THEN s
    ELSE WalkAttendees(IF IsSkipped(ev.Attendees[j]) THEN s ELSE AddEventChunk(s, k, ev),
                       k, ev, j + 1)

\* the outer range loop from item k on (lines 101-143)
RECURSIVE WalkItems(_, _, _)
WalkItems(s, its, k) ==
    IF k > Len(its)
    THEN s
    ELSE WalkItems(IF IsAllDay(its[k])
                   THEN s
                   ELSE WalkAttendees(s, k, WithSelfAttendee(its[k]), 1),
                   its, k + 1)

\* the chunks Chunkify returns for a list
ChunkifyOf(its) ==
    IF Len(its) = 0
    THEN EmptyResult(InitWalk).chunks
    ELSE TrailingGap(WalkItems(InitWalk, its, 1)).chunks

\* ------------------------------------------------------------------------
\* State
\* ------------------------------------------------------------------------
VARIABLES
    input,      \* the events as the caller passed them
    items,      \* the events behind the pointers of the slice
    pc,         \* position in Chunkify
    e,          \* position of the outer range loop in items
    a,          \* position of the inner range loop in e.Attendees
    lo, i, chunks, intersect,
    call,       \* "first" or "second": which call of Chunkify on the list
    returned1   \* the chunks the first call returned, <<>> before that

vars == <<input, items, pc, e, a, lo, i, chunks, intersect, call, returned1>>

walk == [lo |-> lo, i |-> i, chunks |-> chunks, intersect |-> intersect]

SetWalk(s) ==
    /\ lo' = s.lo
    /\ i' = s.i
    /\ chunks' = s.chunks
    /\ intersect' = s.intersect

\* ------------------------------------------------------------------------
\* Inputs
\* ------------------------------------------------------------------------
Summaries == <<"overlapping event", "accepted event", "gap event", "declined event", "late event">>

At(h, m, sec) == RFC3339(date + h * Hour + m * Minute + sec)

\* start and end hour of the plain events: the three of Test_Chunkify
\* (8-17, 10-12, 13-14), and spans that are empty, inverted, adjacent to
\* them, overlapping them or outside the window
PlainSpans ==
    { <<8, 17>>, <<10, 12>>, <<13, 14>>,
      <<8, 8>>, <<10, 10>>, <<12, 10>>,
      <<12, 13>>, <<11, 13>>, <<10, 14>>,
      <<9, 17>>, <<14, 18>>, <<17, 18>> }

\* an event as Test_Chunkify's newEvent builds it, accepted by the user
PlainEvent(k, start, end) ==
    [Start |-> start, End |-> end, Summary |-> Summaries[k],
     Attendees |-> <<Attendee(TRUE, "accepted")>>, Creator |-> [Self |-> FALSE]]

\* the lists of at most MaxEvents plain events
IsPlainInput(its) ==
    \E n \in 0..MaxEvents :
        \E sp \in [1..n -> PlainSpans] :
            its = [k \in 1..n |-> PlainEvent(k, At(sp[k][1], 0, 0), At(sp[k][2], 0, 0))]

\* boundaries off the quarter-hour grid, around 10:00 and 10:15
OddStamps == {At(10, m, sec) : m \in 0..MaxMinute, sec \in {0, 29, 30, 59}}

\* one plain event with boundaries off the grid
IsOddInput(its) ==
    \E st \in OddStamps, en \in OddStamps :
        its = <<PlainEvent(2, st, en)>>

\* attendee list and Creator.Self
MixedPeople ==
    { <<<<>>, TRUE>>,
      <<<<>>, FALSE>>,
      <<<<Attendee(TRUE, "accepted")>>, FALSE>>,
      <<<<Attendee(TRUE, "declined")>>, TRUE>>,
      <<<<Attendee(FALSE, "accepted")>>, TRUE>>,
      <<<<Attendee(FALSE, "accepted"), Attendee(TRUE, "declined")>>, FALSE>>,
      <<<<Attendee(TRUE, "declined"), Attendee(TRUE, "accepted")>>, FALSE>>,
      <<<<Attendee(TRUE, "accepted"), Attendee(TRUE, "tentative")>>, FALSE>> }

\* Start, End, attendee list and Creator.Self: any people on a timed event,
\* and the user on an event with an empty or unparseable timestamp
MixedShapes ==
    ({ <<At(10, 0, 0), At(12, 0, 0)>>,
       <<At(13, 0, 0), At(14, 0, 0)>> } \X MixedPeople)
    \cup
    ({ <<EmptyDateTime, EmptyDateTime>>,
       <<At(10, 0, 0), EmptyDateTime>>,
       <<MalformedDateTime, At(12, 0, 0)>>,
       <<At(10, 0, 0), MalformedDateTime>> }
     \X { <<<<Attendee(TRUE, "accepted")>>, FALSE>>,
          <<<<>>, TRUE>> })

MixedEvent(k, shape) ==
    [Start |-> shape[1][1], End |-> shape[1][2], Summary |-> Summaries[k],
     Attendees |-> shape[2][1], Creator |-> [Self |-> shape[2][2]]]

\* the lists of one to MaxMixed events of any kind
IsMixedInput(its) ==
    \E n \in 1..MaxMixed :
        \E sh \in [1..n -> MixedShapes] :
            its = [k \in 1..n |-> MixedEvent(k, sh[k])]

\* shapes that take the loops down each of their branches: an event the
\* user created without attendees, one with two attendances of the user,
\* one the user declined, an all-day event and one accepted invitation
PassShapes ==
    { <<<<At(10, 0, 0), At(12, 0, 0)>>, <<<<>>, TRUE>>>>,
      <<<<At(13, 0, 0), At(14, 0, 0)>>,
        <<<<Attendee(TRUE, "accepted"), Attendee(TRUE, "tentative")>>, FALSE>>>>,
      <<<<At(10, 0, 0), At(12, 0, 0)>>,
        <<<<Attendee(FALSE, "accepted"), Attendee(TRUE, "declined")>>, FALSE>>>>,
      <<<<EmptyDateTime, EmptyDateTime>>, <<<<Attendee(TRUE, "accepted")>>, FALSE>>>>,
      <<<<At(13, 0, 0), At(14, 0, 0)>>, <<<<Attendee(TRUE, "accepted")>>, FALSE>>>> }

\* the lists of at most MaxEvents events of these shapes
IsPassInput(its) ==
    \E n \in 0..MaxEvents :
        \E sh \in [1..n -> PassShapes] :
            its = [k \in 1..n |-> MixedEvent(k, sh[k])]

\* ------------------------------------------------------------------------
\* Chunkify, one step of its loops at a time
\* ------------------------------------------------------------------------
Init ==
    /\ IsPlainInput(input) \/ IsMixedInput(input) \/ IsOddInput(input)
    /\ items = input
    /\ pc = "entry"
    /\ e = 0
    /\ a = 0
    /\ lo = InitWalk.lo
    /\ i = InitWalk.i
    /\ chunks = InitWalk.chunks
    /\ intersect = InitWalk.intersect
    /\ call = "first"
    /\ returned1 = <<>>

\* lines 96-99: no items at all
EmptyInput ==
    /\ pc = "entry"
    /\ Len(items) = 0
    /\ SetWalk(EmptyResult(walk))
    /\ pc' = "done"
    /\ UNCHANGED <<input, call, returned1, items, e, a>>

\* line 101: the range loop starts
EnterLoop ==
    /\ pc = "entry"
    /\ Len(items) # 0
    /\ pc' = "event"
    /\ e' = 1
    /\ UNCHANGED <<input, call, returned1, items, a, lo, i, chunks, intersect>>

\* lines 103-105
SkipAllDay ==
    /\ pc = "event"
    /\ e <= Len(items)
    /\ IsAllDay(items[e])
    /\ e' = e + 1
    /\ UNCHANGED <<input, call, returned1, items, pc, a, lo, i, chunks, intersect>>

\* lines 108-114: a timed event; the inner range loop starts
BeginEvent ==
    /\ pc = "event"
    /\ e <= Len(items)
    /\ ~IsAllDay(items[e])
    /\ items' = [items EXCEPT ![e] = WithSelfAttendee(items[e])]
    /\ a' = 1
    /\ pc' = "attendee"
    /\ UNCHANGED <<input, call, returned1, e, lo, i, chunks, intersect>>

\* lines 116-118
SkipAttendee ==
    /\ pc = "attendee"
    /\ a <= Len(items[e].Attendees)
    /\ IsSkipped(items[e].Attendees[a])
    /\ a' = a + 1
    /\ UNCHANGED <<input, call, returned1, items, pc, e, lo, i, chunks, intersect>>

\* lines 120-141
AddEvent ==
    /\ pc = "attendee"
    /\ a <= Len(items[e].Attendees)
    /\ ~IsSkipped(items[e].Attendees[a])
    /\ SetWalk(AddEventChunk(walk, e, items[e]))
    /\ a' = a + 1
    /\ UNCHANGED <<input, call, returned1, items, pc, e>>

\* line 142: the attendees of the event are exhausted
EndEvent ==
    /\ pc = "attendee"
    /\ a > Len(items[e].Attendees)
    /\ e' = e + 1
    /\ pc' = "event"
    /\ UNCHANGED <<input, call, returned1, items, a, lo, i, chunks, intersect>>

\* lines 145-153: the items are exhausted
Return ==
    /\ pc = "event"
    /\ e > Len(items)
    /\ SetWalk(TrailingGap(walk))
    /\ pc' = "done"
    /\ UNCHANGED <<input, call, returned1, items, e, a>>

\* Chunkify is called once more with the same date and the same slice of
\* event pointers, as the loop of Benchmark_Chunkify does
CallAgain ==
    /\ pc = "done"
    /\ call = "first"
    /\ call' = "second"
    /\ returned1' = chunks
    /\ pc' = "entry"
    /\ e' = 0
    /\ a' = 0
    /\ SetWalk(InitWalk)
    /\ UNCHANGED <<input, items>>

\* the steps of Chunkify itself
Step ==
    \/ EmptyInput
    \/ EnterLoop
    \/ SkipAllDay
    \/ BeginEvent
    \/ SkipAttendee
    \/ AddEvent
    \/ EndEvent
    \/ Return

Next ==
    \/ Step
    \/ CallAgain

Spec == Init /\ [][Next]_vars

\* the state at the first call, for the lists that exercise the loops
FairInit ==
    /\ IsPassInput(input)
    /\ items = input
    /\ pc = "entry"
    /\ e = 0
    /\ a = 0
    /\ lo = InitWalk.lo
    /\ i = InitWalk.i
    /\ chunks = InitWalk.chunks
    /\ intersect = InitWalk.intersect
    /\ call = "first"
    /\ returned1 = <<>>

\* a call of Chunkify, once started, runs its loops to the return
FairSpec == FairInit /\ [][Next]_vars /\ WF_vars(Step)

\* ------------------------------------------------------------------------
\* Vocabulary of the properties
\* ------------------------------------------------------------------------
Returned == pc = "done"

Timed(ev) == ev.Start.form # "empty" /\ ev.End.form # "empty"

Attends(att) == att.Self /\ att.ResponseStatus # "declined"

\* the attendees an event counts with: a self-created event without
\* attendees counts as accepted by the user
EffectiveAttendees(ev) ==
    IF ev.Attendees = <<>> /\ ev.Creator.Self
    THEN <<Attendee(TRUE, "accepted")>>
    ELSE ev.Attendees

\* the relevant (event, attendee) pairs of event k, in attendee order
RelevantOf(its, k) ==
    IF Timed(its[k])
    THEN LET as == SelectSeq(EffectiveAttendees(its[k]), Attends)
         IN  [j \in 1..Len(as) |->
                 [ev    |-> k,
                  start |-> roundToNearest15(its[k].Start),
                  end   |-> roundToNearest15(its[k].End),
                  notes |-> its[k].Summary]]
    ELSE <<>>

RECURSIVE RelevantUpTo(_, _)
RelevantUpTo(its, n) ==
    IF n = 0 THEN <<>> ELSE RelevantUpTo(its, n - 1) \o RelevantOf(its, n)

\* the relevant pairs of the list the caller passed
Relevant == RelevantUpTo(input, Len(input))

\* the pairs R are listed by start, each with start <= end
OrderedByStart(R) ==
    /\ \A j \in 1..(Len(R) - 1) : R[j].start <= R[j + 1].start
    /\ \A j \in 1..Len(R) : R[j].start <= R[j].end

\* the positions in chunks of the chunks that embed event k
ChunksOf(k) == {c \in 1..Len(chunks) : chunks[c].Event = k}

\* event k has a self attendee with the given response status
SelfWith(ev, status) ==
    \E j \in 1..Len(ev.Attendees) :
        ev.Attendees[j].Self /\ ev.Attendees[j].ResponseStatus = status

\* every self attendee of the event has declined, and there is one
DeclinedOnly(ev) ==
    /\ SelfWith(ev, "declined")
    /\ \A j \in 1..Len(ev.Attendees) :
           ev.Attendees[j].Self => ev.Attendees[j].ResponseStatus = "declined"

\* no timestamp of the caller's list fails to parse
AllParse ==
    \A k \in 1..Len(input) :
        input[k].Start.form # "malformed" /\ input[k].End.form # "malformed"

\* the positions of the event chunks, in order
EventPos ==
    LET S == {c \in 1..Len(chunks) : chunks[c].Event # 0}
    IN  [j \in 1..Cardinality(S) |->
            CHOOSE c \in S : Cardinality({d \in S : d < c}) = j - 1]

\* the first pair of R spans all later ones, which are listed by start and
\* do not overlap each other
FirstSpansRest(R) ==
    /\ Len(R) >= 2
    /\ \A j \in 2..Len(R) :
           /\ R[1].start <= R[j].start
           /\ R[j].start <= R[j].end
           /\ R[j].end <= R[1].end
    /\ \A j \in 2..(Len(R) - 1) :
           /\ R[j].start <= R[j + 1].start
           /\ R[j].end <= R[j + 1].start

\* the chunk of the first pair of R ends where the second pair starts, the
\* event chunks carry the summaries in order, and every gap chunk after the
\* first event chunk carries the first summary
LabelledByFirst(R) ==
    LET pos == EventPos
    IN  /\ Len(pos) = Len(R)
        /\ \A j \in 1..Len(R) : chunks[pos[j]].notes = R[j].notes
        /\ chunks[pos[1]].end = R[2].start
        /\ \A c \in (pos[1] + 1)..Len(chunks) :
               chunks[c].Event = 0 => chunks[c].notes = R[1].notes

\* the pairs R are listed by start and none starts before the previous one
\* ends
NoOverlap(R) ==
    \A j \in 1..(Len(R) - 1) :
        /\ R[j].start <= R[j + 1].start
        /\ R[j].end <= R[j + 1].start

\* the list without its k-th event
Without(its, k) == [j \in 1..(Len(its) - 1) |-> IF j < k THEN its[j] ELSE its[j + 1]]

\* start, end and notes of the chunks
Blocks(cs) == [c \in 1..Len(cs) |-> <<cs[c].start, cs[c].end, cs[c].notes>>]

\* a timed event of which a timestamp does not parse
Malformed(ev) ==
    /\ Timed(ev)
    /\ ev.Start.form = "malformed" \/ ev.End.form = "malformed"

\* r is the quarter-hour mark nearest to instant t, the later one of two
\* equally near marks
NearestQuarter(t, r) ==
    /\ r % (15 * Minute) = 0
    /\ r - t <= 7 * Minute + 30
    /\ t - r < 7 * Minute + 30
    /\ t % (15 * Minute) = 7 * Minute + 30 => r = t + 7 * Minute + 30
    /\ t % (15 * Minute) = 7 * Minute + 29 => r = t - 7 * Minute - 29

\* the rounded ends of the pairs R never decrease along R, and the first is
\* not before 09:00
EndsAscend(R) ==
    /\ Len(R) > 0 => R[1].end >= date + startOfDay * Hour
    /\ \A j \in 1..(Len(R) - 1) : R[j].end <= R[j + 1].end

\* this step adds the chunk of a relevant event
AddsEventChunk == pc = "attendee" /\ chunks' # chunks

Min(x, y) == IF x <= y THEN x ELSE y

Max(x, y) == IF x >= y THEN x ELSE y

\* the hours main adds up over the chunks (lines 55-67), in seconds
RECURSIVE TotalDuration(_)
TotalDuration(cs) ==
    IF Len(cs) = 0
    THEN 0
    ELSE (cs[Len(cs)].end - cs[Len(cs)].start) + TotalDuration(SubSeq(cs, 1, Len(cs) - 1))

\* every pair of R starts and ends within 09:00-17:00 of the date
InsideWindow(R) ==
    \A j \in 1..Len(R) :
        /\ date + startOfDay * Hour <= R[j].start
        /\ R[j].end <= hi

TypeOK ==
    /\ pc \in {"entry", "event", "attendee", "done"}
    /\ intersect \in 0..Len(chunks)
    /\ i \in 0..Len(chunks)

\* ------------------------------------------------------------------------
\* Properties
\* ------------------------------------------------------------------------

\* C1 (contiguity): in the returned sequence every chunk ends where the
\* next one starts, whatever the overlaps and the order of the events
Contiguity ==
    Returned =>
        \A j \in 1..(Len(chunks) - 1) : chunks[j].end = chunks[j + 1].start

\* a returned sequence of four or more chunks, one of them cut back to
\* before its own start by an event listed out of order
ContiguityWitness ==
    /\ Returned
    /\ Len(chunks) >= 4
    /\ \E j \in 1..(Len(chunks) - 1) :
           /\ chunks[j].Event # 0
           /\ chunks[j].end < chunks[j].start
           /\ chunks[j].end # roundToNearest15(input[chunks[j].Event].End)

\* C2 as stated (coverage for any input): the first chunk starts at 09:00
\* and the last chunk ends at 17:00
CoverageAnyInput ==
    Returned =>
        /\ chunks[1].start = date + startOfDay * Hour
        /\ chunks[Len(chunks)].end = date + endOfDay * Hour

\* C2 amended: the first chunk starts at 09:00 unless the first relevant
\* event starts (rounded) before 09:00, and then it starts there; the last
\* chunk ends at 17:00 unless the last relevant event ends (rounded) after
\* 17:00, and then it ends there
CoverageUnlessOutside ==
    Returned =>
        LET R     == Relevant
            n     == Len(R)
            first == chunks[1].start
            last  == chunks[Len(chunks)].end
            nine  == date + startOfDay * Hour
            five  == date + endOfDay * Hour
        IN  /\ Len(chunks) >= 1
            /\ first = IF n > 0 /\ R[1].start < nine THEN R[1].start ELSE nine
            /\ last = IF n > 0 /\ R[n].end > five THEN R[n].end ELSE five

\* a returned sequence that starts before 09:00 and ends after 17:00
CoverageWitness ==
    /\ Returned
    /\ chunks[1].start < date + startOfDay * Hour
    /\ chunks[Len(chunks)].end > date + endOfDay * Hour
    /\ Len(chunks) >= 3

\* C3 (partition): for events listed by start, each with start <= end, every
\* returned chunk has end >= start, chunk starts never decrease, and no
\* chunk reaches into a later one
Partition ==
    (Returned /\ OrderedByStart(Relevant)) =>
        /\ \A j \in 1..Len(chunks) : chunks[j].start <= chunks[j].end
        /\ \A j \in 1..(Len(chunks) - 1) : chunks[j].start <= chunks[j + 1].start
        /\ \A j \in 1..Len(chunks) : \A l \in (j + 1)..Len(chunks) :
               chunks[j].end <= chunks[l].start

\* three events listed by start, one of which starts before the previous
\* one ends
PartitionWitness ==
    LET R == Relevant
    IN  /\ Returned
        /\ OrderedByStart(R)
        /\ Len(R) >= 3
        /\ \E j \in 1..(Len(R) - 1) : R[j + 1].start < R[j].end

\* C4 as stated (declined events), for lists whose timestamps all parse: an
\* event with a self attendee who declined backs no returned chunk and lends
\* its summary to none, whatever further attendees it lists
DeclinedNeverChunked ==
    (Returned /\ AllParse) =>
        \A k \in 1..Len(input) :
            SelfWith(input[k], "declined") =>
                /\ ChunksOf(k) = {}
                /\ \A c \in 1..Len(chunks) : chunks[c].notes # input[k].Summary

\* C4 amended: an event whose self attendees have all declined backs no
\* returned chunk and lends its summary to none, whatever further (non-self)
\* attendees it lists
DeclinedOnlyNeverChunked ==
    Returned =>
        \A k \in 1..Len(input) :
            DeclinedOnly(input[k]) =>
                /\ ChunksOf(k) = {}
                /\ \A c \in 1..Len(chunks) : chunks[c].notes # input[k].Summary

\* a timed event declined by the user, listing another attendee too, next
\* to an event that did get its chunk
DeclinedWitness ==
    /\ Returned
    /\ \E k \in 1..Len(input) :
           /\ Timed(input[k])
           /\ DeclinedOnly(input[k])
           /\ Len(input[k].Attendees) >= 2
    /\ \E c \in 1..Len(chunks) : chunks[c].Event # 0

\* C5 (synthesized attendee): a timed event without attendees yields exactly
\* one event chunk, carrying its summary, when the user created it, and no
\* event chunk otherwise
SynthesizedAttendee ==
    Returned =>
        \A k \in 1..Len(input) :
            (Timed(input[k]) /\ Len(input[k].Attendees) = 0) =>
                IF input[k].Creator.Self
                THEN /\ Cardinality(ChunksOf(k)) = 1
                     /\ \A c \in ChunksOf(k) : chunks[c].notes = input[k].Summary
                ELSE ChunksOf(k) = {}

\* two timed events without attendees, one created by the user and one not
SynthesizedWitness ==
    /\ Returned
    /\ \E k, l \in 1..Len(input) :
           /\ Timed(input[k]) /\ Len(input[k].Attendees) = 0
           /\ Timed(input[l]) /\ Len(input[l].Attendees) = 0
           /\ input[k].Creator.Self
           /\ ~input[l].Creator.Self
           /\ ChunksOf(k) # {}

\* C6 (no relevant events): a list without relevant events yields the one
\* chunk from 09:00 to 17:00 with empty notes
NoRelevantEvents ==
    (Returned /\ Len(Relevant) = 0) =>
        chunks = <<Chunk(0, date + startOfDay * Hour, date + endOfDay * Hour, "")>>

\* a list of an all-day event and a timed event that is not relevant
NoRelevantWitness ==
    /\ Returned
    /\ Len(Relevant) = 0
    /\ \E k, l \in 1..Len(input) : ~Timed(input[k]) /\ Timed(input[l])

\* C7 as stated (overlap labelling), for lists whose timestamps all parse:
\* when the first relevant event spans all later ones, and these are listed
\* by start and do not overlap each other, its chunk ends at the second
\* event's start and every later gap chunk carries its summary
OverlapLabelling ==
    (Returned /\ AllParse) =>
        LET R == Relevant
        IN  FirstSpansRest(R) => LabelledByFirst(R)

\* C7 amended: the same, provided the second relevant event starts before
\* the first one ends
OverlapLabellingWhenCut ==
    Returned =>
        LET R == Relevant
        IN  (FirstSpansRest(R) /\ R[2].start < R[1].end) => LabelledByFirst(R)

\* the notes run A, e1, A, e2, A as in the overlapping case of the test
OverlapWitness ==
    /\ Returned
    /\ FirstSpansRest(Relevant)
    /\ Relevant[2].start < Relevant[1].end
    /\ Len(chunks) = 5
    /\ chunks[1].notes = Summaries[1]
    /\ chunks[2].notes = Summaries[2]
    /\ chunks[3].Event = 0 /\ chunks[3].notes = Summaries[1]
    /\ chunks[4].notes = Summaries[3]
    /\ chunks[5].Event = 0 /\ chunks[5].notes = Summaries[1]
    /\ \A c \in 1..5 : chunks[c].start < chunks[c].end

\* C8 (blank gaps): when the relevant events are listed by start and none
\* starts before the previous one ends, no chunk is truncated, every gap
\* chunk has empty notes, and between two consecutive relevant events there
\* is a gap chunk [end, next start) exactly when end < next start
BlankGaps ==
    Returned =>
        LET R   == Relevant
            pos == EventPos
        IN  NoOverlap(R) =>
            /\ Len(pos) = Len(R)
            /\ \A j \in 1..Len(R) :
                   /\ chunks[pos[j]].start = R[j].start
                   /\ chunks[pos[j]].end = R[j].end
            /\ \A c \in 1..Len(chunks) : chunks[c].Event = 0 => chunks[c].notes = ""
            /\ \A j \in 1..(Len(R) - 1) :
                   IF R[j].end < R[j + 1].start
                   THEN /\ pos[j + 1] = pos[j] + 2
                        /\ chunks[pos[j] + 1] = Chunk(0, R[j].end, R[j + 1].start, "")
                   ELSE pos[j + 1] = pos[j] + 1

\* three events in a row, with a gap before the first, a gap between two
\* of them and none between the other two
BlankGapsWitness ==
    LET pos == EventPos
    IN  /\ Returned
        /\ NoOverlap(Relevant)
        /\ Len(Relevant) = 3
        /\ Len(pos) = 3
        /\ chunks[1].Event = 0
        /\ \E j \in 1..2 : pos[j + 1] = pos[j] + 1
        /\ \E j \in 1..2 : pos[j + 1] = pos[j] + 2
        /\ \A c \in 1..Len(chunks) : chunks[c].start < chunks[c].end

\* C9 (rounding): the start of every event chunk is the quarter-hour mark
\* nearest to the event's start, 7:30 past a mark going up and 7:29 going
\* down, and so is the end of the latest event chunk for the event's end;
\* every boundary of a chunk is a multiple of 15 minutes; rounding keeps the
\* order of the boundaries of one event and of the starts of two events
Rounding ==
    /\ \A c \in 1..Len(chunks) :
           /\ chunks[c].start % (15 * Minute) = 0
           /\ chunks[c].end % (15 * Minute) = 0
    /\ \A c \in 1..Len(chunks) :
           (chunks[c].Event # 0 /\ input[chunks[c].Event].Start.form = "rfc3339") =>
               NearestQuarter(input[chunks[c].Event].Start.sec, chunks[c].start)
    /\ (i # 0 /\ input[chunks[i].Event].End.form = "rfc3339") =>
           NearestQuarter(input[chunks[i].Event].End.sec, chunks[i].end)
    /\ (i # 0 /\ AllParse) =>
           LET ev == input[chunks[i].Event]
           IN  /\ ev.Start.sec <= ev.End.sec => chunks[i].start <= chunks[i].end
               /\ ev.End.sec <= ev.Start.sec => chunks[i].end <= chunks[i].start
    /\ AllParse =>
           \A c, d \in 1..Len(chunks) :
               (/\ chunks[c].Event # 0
                /\ chunks[d].Event # 0
                /\ input[chunks[c].Event].Start.sec <= input[chunks[d].Event].Start.sec)
               => chunks[c].start <= chunks[d].start

\* an event that starts 7:29 past 10:00 and ends a second later: its chunk
\* runs from 10:00 to 10:15
RoundingWitness ==
    /\ i # 0
    /\ input[chunks[i].Event].Start = At(10, 7, 29)
    /\ input[chunks[i].Event].End = At(10, 7, 30)
    /\ chunks[i].start = date + 10 * Hour
    /\ chunks[i].end = date + 10 * Hour + 15 * Minute

\* C10 (malformed timestamps): a timed event of which the start or the end
\* does not parse backs no returned chunk, and the returned chunks are those
\* returned for the list without the event
MalformedExcluded ==
    Returned =>
        \A k \in 1..Len(input) :
            Malformed(input[k]) =>
                /\ ChunksOf(k) = {}
                /\ Blocks(chunks) = Blocks(ChunkifyOf(Without(input, k)))

\* the walk of the actions returns what Chunkify returns as a function
WalkIsChunkify == Returned => chunks = ChunkifyOf(input)

\* C11 (purity of inputs): when Chunkify returns, every event of the list
\* has the attendee list, start, end and summary it had at the call
InputsUnchanged ==
    Returned =>
        /\ Len(items) = Len(input)
        /\ \A k \in 1..Len(input) :
               /\ items[k].Attendees = input[k].Attendees
               /\ items[k].Start = input[k].Start
               /\ items[k].End = input[k].End
               /\ items[k].Summary = input[k].Summary

\* C12 (determinism): a second call with the same date on the same event
\* objects returns the chunks the first call returned: as many, and equal
\* one by one in start, end, notes and backing event
SecondCallEqual ==
    (Returned /\ call = "second") =>
        /\ Len(chunks) = Len(returned1)
        /\ \A c \in 1..Len(chunks) :
               /\ chunks[c].start = returned1[c].start
               /\ chunks[c].end = returned1[c].end
               /\ chunks[c].notes = returned1[c].notes
               /\ chunks[c].Event = returned1[c].Event

\* the second call has returned for a list with a self-created event
\* without attendees, which the first call left with an attendee
SecondCallWitness ==
    /\ Returned
    /\ call = "second"
    /\ \E k \in 1..Len(input) :
           /\ Len(input[k].Attendees) = 0
           /\ Len(items[k].Attendees) = 1
           /\ ChunksOf(k) # {}
    /\ Len(chunks) >= 3

\* C13 (scope of label inheritance), for lists whose timestamps all parse
\* and that are listed by start: a returned gap chunk with notes carries the
\* summary of a relevant event whose chunk precedes it and whose rounded
\* span contains the gap, and a gap inside no such span has empty notes
LabelInsideSpan ==
    (Returned /\ AllParse) =>
        LET R   == Relevant
            pos == EventPos
        IN  OrderedByStart(R) =>
            \A c \in 1..Len(chunks) :
                (chunks[c].Event = 0 /\ chunks[c].notes # "") =>
                    \E j \in 1..Len(R) :
                        /\ pos[j] < c
                        /\ R[j].notes = chunks[c].notes
                        /\ R[j].start <= chunks[c].start
                        /\ chunks[c].end <= R[j].end

\* C14 as stated (monotone cursor), for lists whose timestamps all parse and
\* that are listed by start: within one call lo never decreases
CursorNeverDecreases ==
    [][(call' = call /\ AllParse /\ OrderedByStart(Relevant)) => lo' >= lo]_vars

\* C14 amended: lo starts at 09:00; adding the chunk of a relevant event
\* sets lo to the event's rounded end and no other step of the call changes
\* it; so within one call lo never decreases when the rounded ends of the
\* relevant events never decrease along the list and the first is not
\* before 09:00
CursorFollowsEnds ==
    /\ lo = date + startOfDay * Hour
    /\ [][call' = call =>
            /\ IF AddsEventChunk
               THEN lo' = roundToNearest15(input[e].End)
               ELSE lo' = lo
            /\ lo' >= lo \/ ~EndsAscend(Relevant)]_vars

\* three events with ascending ends, one starting before the previous one
\* ends, have moved lo from 09:00 to the end of the last one
CursorWitness ==
    LET R == Relevant
    IN  /\ Returned
        /\ Len(R) = 3
        /\ EndsAscend(R)
        /\ OrderedByStart(R)
        /\ \E j \in 1..2 : R[j + 1].start < R[j].end /\ R[j].end < R[j + 1].end
        /\ R[1].end < R[3].end
        /\ lo = R[3].end

\* C15 (frame of a step): within one call no step removes a chunk or changes
\* the start, the notes or the backing event of a chunk already there; the
\* step that adds the chunk of a relevant event appends one or two chunks,
\* and the only end that ever changes is that of the chunk right before the
\* new event chunk, which becomes the new event's start, exactly when that
\* chunk was there before and its end was greater than this start
StepFrame ==
    [][call' = call =>
          LET n == Len(chunks)
              m == Len(chunks')
          IN  /\ m >= n
              /\ \A c \in 1..n :
                     /\ chunks'[c].start = chunks[c].start
                     /\ chunks'[c].notes = chunks[c].notes
                     /\ chunks'[c].Event = chunks[c].Event
                     /\ chunks'[c].end # chunks[c].end =>
                            /\ AddsEventChunk
                            /\ c = m - 1
                            /\ chunks[c].end > chunks'[m].start
                            /\ chunks'[c].end = chunks'[m].start
              /\ AddsEventChunk =>
                     /\ m \in {n + 1, n + 2}
                     /\ chunks'[m].Event = e
                     /\ (n >= 1 /\ m = n + 1 /\ chunks[n].end > chunks'[m].start) =>
                            chunks'[n].end = chunks'[m].start]_vars

\* in the middle of a call, the second of four or more chunks has been cut
\* back to the start of the event chunk after it
StepFrameWitness ==
    /\ pc = "attendee"
    /\ Len(chunks) >= 4
    /\ intersect = 2
    /\ chunks[2].Event # 0
    /\ chunks[2].end = chunks[3].start
    /\ chunks[2].end < roundToNearest15(input[chunks[2].Event].End)
    /\ chunks[2].start < chunks[2].end

\* C16 (event chunks mirror the relevant events): the returned event chunks
\* are, in order, one per relevant (event, attendee) pair; each is backed by
\* the event, has its summary as notes and its rounded start as start, and
\* ends at the event's rounded end or, if that is earlier, at the rounded
\* start of the next relevant pair
EventChunksMirror ==
    Returned =>
        LET R   == Relevant
            pos == EventPos
        IN  /\ Len(pos) = Len(R)
            /\ \A j \in 1..Len(R) :
                   /\ chunks[pos[j]].Event = R[j].ev
                   /\ chunks[pos[j]].notes = R[j].notes
                   /\ chunks[pos[j]].start = R[j].start
                   /\ chunks[pos[j]].end =
                          IF j < Len(R) THEN Min(R[j].end, R[j + 1].start) ELSE R[j].end

\* an event with two self attendees who have not declined backs two chunks,
\* followed by the chunk of another event
EventChunksWitness ==
    /\ Returned
    /\ \E k \in 1..Len(input) :
           /\ Len(input[k].Attendees) = 2
           /\ Cardinality(ChunksOf(k)) = 2
           /\ ChunksOf(k + 1) # {}

\* C17 (coverage inside the window): when the relevant events are ordered by
\* start, each with start <= end, and all their rounded starts and ends lie
\* within 09:00-17:00 of the date, the first returned chunk starts at 09:00,
\* the last ends at 17:00 and the chunk durations add up to 8 hours
CoverageInside ==
    Returned =>
        LET R == Relevant
        IN  (OrderedByStart(R) /\ InsideWindow(R)) =>
                /\ Len(chunks) >= 1
                /\ chunks[1].start = date + startOfDay * Hour
                /\ chunks[Len(chunks)].end = hi
                /\ TotalDuration(chunks) = (endOfDay - startOfDay) * Hour

\* two or more relevant events inside the window, one starting before the
\* one before it ends, with a gap in front and a gap behind
CoverageInsideWitness ==
    /\ Returned
    /\ LET R == Relevant
       IN  /\ Len(R) >= 2
           /\ OrderedByStart(R)
           /\ InsideWindow(R)
           /\ \E j \in 1..(Len(R) - 1) : R[j + 1].start < R[j].end
           /\ R[1].start > date + startOfDay * Hour
    /\ chunks[1].Event = 0
    /\ chunks[Len(chunks)].Event = 0
    /\ Len(chunks) >= 4

\* C18 (bounded single pass): a call that has started returns; while it runs
\* the loop position (e, a) only moves forward, one attendee at a time; and
\* with k relevant (event, attendee) pairs the returned list has at least
\* max(1, k) and at most 2k + 1 chunks
SinglePass ==
    /\ (pc = "entry") ~> Returned
    /\ [](Returned =>
            LET k == Len(Relevant)
            IN  /\ Len(chunks) >= Max(1, k)
                /\ Len(chunks) <= 2 * k + 1)
    /\ [][call' = call =>
            /\ e' \in {e, e + 1}
            /\ e' = e => (a' = a + 1 \/ (a' = 1 /\ pc = "event") \/ pc' = "done")
            /\ Len(chunks') <= Len(chunks) + 2]_vars

\* a call returns 2k + 1 chunks for k >= 2 relevant events
SinglePassWitness ==
    /\ Returned
    /\ Len(Relevant) >= 2
    /\ Len(chunks) = 2 * Len(Relevant) + 1
====
